---- MODULE Spec2Model ----
(***************************************************************************)
(* State-machine model of the image-to-text application:                   *)
(*   src/App.tsx                   App, ResultEditor, ImageUploader        *)
(*   src/services/geminiService.ts resizeImageBase64, extractTextFromImage *)
(*                                                                         *)
(* A React render is a snapshot: every function created by a render        *)
(* (processFile, handleImageSelected, incrementUsage) reads the state      *)
(* values of that render.  A listener registered by an effect keeps the    *)
(* function of the render in which the effect last ran.  The model keeps   *)
(* one "closure" record per registered listener and per run in flight.     *)
(*                                                                         *)
(* Texts and messages are sequences of characters (one-character strings); *)
(* a run of non-Latin characters is kept as one element written "fa:...".  *)
(***************************************************************************)
EXTENDS Integers, Sequences, FiniteSets, TLC

\* ------------------------------------------------------------------ bounds
\* Total number of inputs accepted for reading over the whole behaviour.
MaxRuns == 2
\* Days the clock can reach (the clock starts on day 1).
MaxDay == 2
\* Largest usage count a previous session may have left in storage.
MaxStored == 2
\* Number of changes the user makes to the key, the instructions and eco mode.
MaxEdits == 1
\* Number of inputs that are not images over the whole behaviour.
MaxRejected == 2
\* Largest pan offset, in pixels, the viewer is followed to.
MaxPan == 1

\* ------------------------------------------------------- program constants
DAILY_LIMIT == 1500
\* Math.max(prev - 0.5, 1) and Math.min(prev + 0.5, 4), in steps of 0.5.
MinScale == 2
MaxScale == 8
\* resizeImageBase64(base64Data, 1000)
MaxDimension == 1000

\* Math.max, Math.min
Max(a, b) == IF a >= b THEN a ELSE b
Min(a, b) == IF a <= b THEN a ELSE b

\* ------------------------------------------------------------- characters
Includes(s, p) ==
    \E i \in 1..(Len(s) - Len(p) + 1) : SubSeq(s, i, i + Len(p) - 1) = p

\* String.prototype.includes patterns of the catch block.
PatApiKey == <<"A","P","I"," ","k","e","y">>
Pat403 == <<"4","0","3">>

\* Messages thrown by extractTextFromImage.
MissingKeyMessage ==
    <<"A","P","I"," ","K","e","y"," ","fa:yaft nashod","."," ",
      "fa:lotfan dar tanzimat kelid-e khod ra vared konid",".">>
InvalidKeyMessage ==
    <<"fa:kelid"," ","A","P","I"," ","fa:namotabar ast"," ","(","4","0","3",")",
      "."," ","fa:lotfan kelid-e khod ra barresi konid",".">>
GenericMessage == <<"fa:khata dar estekhraj-e matn az tasvir">>
\* Reading .includes of an undefined message throws inside the catch block.
TypeErrorMessage ==
    <<"Cannot read properties of undefined (reading 'includes')">>
\* Fallback of the callers' catch blocks.
ErrorProcessingMessage == <<"Error processing image.">>

\* A thrown value: has = FALSE when it carries no message property.
Err(m) == [has |-> TRUE, message |-> m]
NoMessageError == [has |-> FALSE, message |-> <<>>]
NoError == [has |-> FALSE, message |-> <<"none">>]

\* Failures the remote call can reject with.
RemoteErrors ==
    { Err(<<"A","P","I"," ","k","e","y"," ","n","o","t"," ","v","a","l","i","d">>),
      Err(<<"4","0","3"," ","F","o","r","b","i","d","d","e","n">>),
      Err(<<"4","0","1"," ","U","n","a","u","t","h","o","r","i","z","e","d">>),
      Err(<<"A","P","I","_","K","E","Y","_","I","N","V","A","L","I","D">>),
      Err(<<"F","a","i","l","e","d"," ","t","o"," ","f","e","t","c","h">>),
      Err(<<>>),
      NoMessageError }

\* response.text of a successful remote call: absent, empty, Latin, non-Latin.
Resp(t) == [has |-> TRUE, text |-> t]
NoTextResponse == [has |-> FALSE, text |-> <<>>]
RemoteResponses ==
    { NoTextResponse, Resp(<<>>), Resp(<<"H","i">>), Resp(<<"fa:salam">>) }

\* ------------------------------------------------------------ conversions
Digit(d) ==
    CASE d = 0 -> "0" [] d = 1 -> "1" [] d = 2 -> "2" [] d = 3 -> "3"
      [] d = 4 -> "4" [] d = 5 -> "5" [] d = 6 -> "6" [] d = 7 -> "7"
      [] d = 8 -> "8" [] d = 9 -> "9"

DigitValue(c) ==
    CASE c = "0" -> 0 [] c = "1" -> 1 [] c = "2" -> 2 [] c = "3" -> 3
      [] c = "4" -> 4 [] c = "5" -> 5 [] c = "6" -> 6 [] c = "7" -> 7
      [] c = "8" -> 8 [] c = "9" -> 9

\* Number.prototype.toString of a non-negative integer.
RECURSIVE NumToString(_)
NumToString(n) ==
    IF n < 10 THEN <<Digit(n)>> ELSE NumToString(n \div 10) \o <<Digit(n % 10)>>

\* parseInt of a string of decimal digits.
RECURSIVE ParseInt(_)
ParseInt(s) ==
    IF Len(s) = 1 THEN DigitValue(s[1])
    ELSE 10 * ParseInt(SubSeq(s, 1, Len(s) - 1)) + DigitValue(s[Len(s)])

\* ------------------------------------------------------------------ images
\* A data URL: the image it encodes (id), the pixel size of that image and who
\* encoded it: "file" (FileReader.readAsDataURL), "canvas" (canvas.toDataURL)
\* or "empty" (the string "data:," that toDataURL returns for a canvas without
\* pixels).
Size(w, h) == [w |-> w, h |-> h]
DataUrl(id, w, h, enc) == [id |-> id, w |-> w, h |-> h, enc |-> enc]
FileDataUrl(id, size) == DataUrl(id, size.w, size.h, "file")

\* Images the user can supply: landscape, portrait, square, small, exactly at
\* the limit, one pixel over it, and a very flat one.
BigImage == Size(2000, 500)
ImageSizes ==
    { Size(2000, 500), Size(500, 2000), Size(2000, 2000), Size(1062, 1062),
      Size(800, 600), Size(1000, 1000), Size(1001, 300), Size(3000, 2) }

\* Pairs <<a, b>> of the sizes above for which the double a * (1000 / b) lies
\* just below the exact quotient: 1062 * (1000 / 1062) = 999.9999999999999.
RoundsBelow == { <<1062, 1062>> }

\* a *= maxWidth / b, then assigned to canvas.width or canvas.height (an
\* unsigned long: the fraction is dropped).
ScaleTo(a, b, maxWidth) ==
    LET q == (a * maxWidth) \div b IN
    IF <<a, b>> \in RoundsBelow /\ (a * maxWidth) % b = 0 THEN q - 1 ELSE q

\* canvas.toDataURL(mimeType, 0.8) of a canvas of the given size.
ToDataURL(id, width, height) ==
    IF width = 0 \/ height = 0 THEN DataUrl(id, 0, 0, "empty")
    ELSE DataUrl(id, width, height, "canvas")

\* Faulty variant: every decoded image is drawn and encoded again.
ResizeImageBase64_Always(base64Str, maxWidth, decodes, hasContext) ==
    IF decodes /\ hasContext
    THEN ToDataURL(base64Str.id, Min(base64Str.w, maxWidth), Min(base64Str.h, maxWidth))
    ELSE base64Str

\* What resizeImageBase64(base64Str, maxWidth) resolves to: decodes is FALSE
\* when img.onerror fires, hasContext is FALSE when getContext('2d') is null.
ResizeImageBase64(base64Str, maxWidth, decodes, hasContext) ==
    IF ~decodes THEN base64Str
    ELSE IF base64Str.w <= maxWidth /\ base64Str.h <= maxWidth THEN base64Str
    ELSE
        LET landscape == base64Str.w > base64Str.h
            width == IF landscape
                     THEN (IF base64Str.w > maxWidth THEN maxWidth ELSE base64Str.w)
                     ELSE (IF base64Str.h > maxWidth
                           THEN ScaleTo(base64Str.w, base64Str.h, maxWidth)
                           ELSE base64Str.w)
            height == IF landscape
                      THEN (IF base64Str.w > maxWidth
                            THEN ScaleTo(base64Str.h, base64Str.w, maxWidth)
                            ELSE base64Str.h)
                      ELSE (IF base64Str.h > maxWidth THEN maxWidth ELSE base64Str.h)
        IN IF hasContext THEN ToDataURL(base64Str.id, width, height) ELSE base64Str

\* inlineData.data: finalBase64.split(',')[1] || finalBase64.  The part after
\* the comma is the encoded body; "data:," has an empty one, so the whole
\* string is sent.
Body(u) == [part |-> "body", of |-> u]
CleanBase64(finalBase64) ==
    IF finalBase64.enc = "empty" THEN [part |-> "all", of |-> finalBase64]
    ELSE Body(finalBase64)

\* ------------------------------------------------------------------ prompt
IsSpace(c) == c \in {" ", "\n", "\t"}

RECURSIVE TrimStart(_)
TrimStart(s) == IF s # <<>> /\ IsSpace(Head(s)) THEN TrimStart(Tail(s)) ELSE s

RECURSIVE TrimEnd(_)
TrimEnd(s) ==
    IF s # <<>> /\ IsSpace(s[Len(s)]) THEN TrimEnd(SubSeq(s, 1, Len(s) - 1)) ELSE s

\* Faulty variant: nothing trimmed.
Trim_None(s) == s

\* String.prototype.trim
Trim(s) == TrimEnd(TrimStart(s))

\* The three fixed parts of the prompt, each kept as one element.
BaseRules == <<"prompt:You are an expert OCR specialist ... 3. Formatting">>
CustomBlockHead == <<"\n", "\n", "prompt:USER CUSTOM INSTRUCTIONS (PRIORITY): ...", "\"">>
CustomBlockEnd == <<"\"">>
OutputOnly == <<"\n", "\n", "prompt:Return ONLY the extracted and corrected text. ...">>

\* promptText for the customInstructions argument; given is FALSE when the
\* argument is undefined.
BuildPrompt(given, customInstructions) ==
    BaseRules
    \o (IF given /\ Len(Trim(customInstructions)) > 0
        THEN CustomBlockHead \o customInstructions \o CustomBlockEnd
        ELSE <<>>)
    \o OutputOnly

\* ----------------------------------------------- extractTextFromImage parts
\* Faulty variant: the environment key preferred to the caller's.
ResolveKey_EnvFirst(userApiKey, defaultKey) ==
    IF defaultKey # "" THEN defaultKey ELSE userApiKey

\* const apiKey = userApiKey || process.env.API_KEY
ResolveKey(userApiKey, defaultKey) ==
    IF userApiKey # "" THEN userApiKey ELSE defaultKey

\* Faulty variant: the key pattern matched without regard to case.
IsInvalidKeyError_AnyCase(m) ==
    \/ Includes(m, PatApiKey)
    \/ Includes(m, <<"A","P","I"," ","K","e","y">>)
    \/ Includes(m, Pat403)

\* Faulty variant: the "403" test left out.
IsInvalidKeyError_No403(m) == Includes(m, PatApiKey)

\* The test of the catch block that rewrites a failure as "invalid key".
IsInvalidKeyError(m) == Includes(m, PatApiKey) \/ Includes(m, Pat403)

\* The message of the error extractTextFromImage rejects with, given the value
\* caught by its catch block.
MapError(e) ==
    IF ~e.has THEN TypeErrorMessage
    ELSE IF IsInvalidKeyError(e.message) THEN InvalidKeyMessage
    ELSE IF e.message # <<>> THEN e.message ELSE GenericMessage

\* return response.text || ""
ResponseText(resp) == IF resp.has /\ resp.text # <<>> THEN resp.text ELSE <<>>

\* addToast(err.message || "Error processing image.", 'error')
ToastMessage(m) == IF m # <<>> THEN m ELSE ErrorProcessingMessage

\* ------------------------------------------------------------------ state
VARIABLES
    today,               \* new Date().toDateString(), as a day number
    store,               \* localStorage: usage_date, usage_count
    envKey,              \* process.env.API_KEY ("" when not set)
    apiKey, customInstructions, isEcoMode, usageCount,
    extractedText, resultImage, isLoading, loadingMessage,
    pasteClosure,        \* render whose processFile the paste listener holds
    dropClosure,         \* render whose processFile the window drop listener holds
    runs,                \* inputs accepted for reading, in order of arrival
    started,             \* number of inputs accepted over the whole behaviour
    edits,               \* number of settings changes over the whole behaviour
    loadedCount,         \* usageCount right after the last page load
    viewer,              \* ResultEditor: scale, position, isDragging, dragStart,
                         \* direction
    rejected,            \* number of inputs refused for their type
    warnings             \* number of t.fileTypeWarning toasts added

vars == <<today, store, envKey, apiKey, customInstructions, isEcoMode, usageCount,
          extractedText, resultImage, isLoading, loadingMessage, pasteClosure,
          dropClosure, runs, started, edits, loadedCount, viewer, rejected,
          warnings>>

Keys == {"", "k1"}
\* Values typed into the custom instructions field.
Instructions == {<<>>, <<"X">>}
\* The same with values that are blank or padded with blanks.
PromptInstructions == {<<>>, <<"X">>, <<" ">>, <<" ", "X", "\n">>}
WindowChannels == {"paste", "windowDrop"}
UploaderChannels == {"picker", "areaDrop"}

\* The state values a render's functions read.
Closure(k, c, e, n) ==
    [apiKey |-> k, customInstructions |-> c, isEcoMode |-> e, usageCount |-> n]

\* Every accepted input carries its own image, named by its arrival number;
\* resultImage is NoImage when null.
NoImage == DataUrl(0, 0, 0, "none")
\* Nothing transmitted yet.
NoData == [part |-> "none", of |-> NoImage]

\* useState initial values: the first render of App.
FirstRender == Closure("", <<>>, FALSE, 0)

NewRun(closure, img, pc) ==
    [pc |-> pc, closure |-> closure, image |-> img,
     text |-> <<>>, cause |-> "none", error |-> NoError, reported |-> <<>>,
     extractCalls |-> 0, resizes |-> 0, requests |-> 0,
     clientKey |-> "", final |-> NoImage, sent |-> NoData, prompt |-> <<>>]

\* A run has started once the loading state was shown for it.
Started(r) == r.pc \notin {"uread", "ureadError"}
Ended(r) == r.pc \in {"done", "failed"}
InFlight(r) == Started(r) /\ ~Ended(r)

\* ---------------------------------------------------------------- quota
\* const remainingRequests = Math.max(0, DAILY_LIMIT - usageCount)
RemainingRequests(n) == Max(0, DAILY_LIMIT - n)

\* const newCount = usageCount + 1, with the usageCount of the render that
\* created the incrementUsage being called.
NewCount(closure) == closure.usageCount + 1

\* ----------------------------------------------------------------- viewer
\* useState initial values of ResultEditor.  scale is counted in steps of 0.5:
\* 2 is scale 1, 8 is scale 4.
Point(x, y) == [x |-> x, y |-> y]
Origin == Point(0, 0)
FirstViewer ==
    [scale |-> MinScale, position |-> Origin, isDragging |-> FALSE,
     dragStart |-> Origin, direction |-> "rtl"]

\* /^[A-Za-z]/.test(initialText.trim())
LatinLetters ==
    {"A","B","C","D","E","F","G","H","I","J","K","L","M","N","O","P","Q","R","S",
     "T","U","V","W","X","Y","Z","a","b","c","d","e","f","g","h","i","j","k","l",
     "m","n","o","p","q","r","s","t","u","v","w","x","y","z"}
BeginsLatin(text) == Trim(text) # <<>> /\ Head(Trim(text)) \in LatinLetters

\* The effect of ResultEditor on initialText: the direction is switched to
\* left-to-right for a text that begins with a Latin letter, and left alone
\* otherwise.
AfterTextEffect(v, initialText) ==
    IF initialText # <<>> /\ BeginsLatin(initialText)
    THEN [v EXCEPT !.direction = "ltr"] ELSE v

\* The state of ResultEditor after App stores text in place of old: App renders
\* ResultEditor only for a text that is not empty, so it is unmounted by an
\* empty text, mounted afresh after one, and otherwise kept, its effect
\* running when the text differs.
ShowResult(v, old, text) ==
    IF text = <<>> THEN FirstViewer
    ELSE IF old = <<>> THEN AfterTextEffect(FirstViewer, text)
    ELSE IF text = old THEN v
    ELSE AfterTextEffect(v, text)

\* ------------------------------------------------------------- page load
EnvKeys == {"", "envk"}
\* localStorage values of app_eco_mode ("" when absent).
EcoValues == {"", "true", "false"}

\* The mount effect of App, followed by the render it causes.  st is the usage
\* part of localStorage; urlKey is the ?key= query parameter, savedKey and
\* savedEco the stored user_gemini_api_key and app_eco_mode ("" when absent).
\* The paste and drop effects ran after the first render; they run again only
\* if the render after the mount effect differs in apiKey, customInstructions
\* or isEcoMode.
MountState(st, day, urlKey, savedKey, savedEco) ==
    LET key == IF urlKey # "" THEN urlKey ELSE savedKey
        eco == IF savedEco # "" THEN savedEco = "true" ELSE FALSE
        sameDay == st.usage_date = day
        count == IF sameDay /\ st.usage_count # <<>>
                 THEN ParseInt(st.usage_count) ELSE 0
        rerun == key # FirstRender.apiKey \/ eco # FirstRender.isEcoMode
    IN [store |-> [usage_date |-> day,
                   usage_count |-> IF sameDay THEN st.usage_count ELSE <<"0">>],
        apiKey |-> key, isEcoMode |-> eco, usageCount |-> count,
        listener |-> IF rerun THEN Closure(key, <<>>, eco, count) ELSE FirstRender]

\* What earlier sessions can have left in the usage part of localStorage:
\* nothing, or a count for today (1) or for an earlier day (0).
NoStore == [usage_date |-> 0, usage_count |-> <<>>]
StoredStates ==
    {NoStore} \cup
    { [usage_date |-> d, usage_count |-> NumToString(n)] :
        d \in 0..1, n \in 0..MaxStored }

Mounted(m) ==
    /\ store = m.store
    /\ apiKey = m.apiKey
    /\ customInstructions = <<>>
    /\ isEcoMode = m.isEcoMode
    /\ usageCount = m.usageCount
    /\ extractedText = <<>>
    /\ resultImage = NoImage
    /\ isLoading = FALSE
    /\ loadingMessage = ""
    /\ pasteClosure = m.listener
    /\ dropClosure = m.listener
    /\ runs = <<>>
    /\ loadedCount = m.usageCount
    /\ viewer = FirstViewer

Init ==
    /\ today = 1
    /\ envKey \in EnvKeys
    /\ started = 0
    /\ edits = 0
    /\ rejected = 0
    /\ warnings = 0
    /\ \E st \in StoredStates, urlKey \in Keys, savedKey \in Keys,
          savedEco \in EcoValues :
          Mounted(MountState(st, 1, urlKey, savedKey, savedEco))

\* Reloading the page: the running script and its state are discarded and the
\* application mounts again from localStorage.
PageLoad(urlKey, savedKey, savedEco) ==
    LET m == MountState(store, today, urlKey, savedKey, savedEco) IN
    /\ store' = m.store
    /\ apiKey' = m.apiKey
    /\ customInstructions' = <<>>
    /\ isEcoMode' = m.isEcoMode
    /\ usageCount' = m.usageCount
    /\ extractedText' = <<>>
    /\ resultImage' = NoImage
    /\ isLoading' = FALSE
    /\ loadingMessage' = ""
    /\ pasteClosure' = m.listener
    /\ dropClosure' = m.listener
    /\ runs' = <<>>
    /\ loadedCount' = m.usageCount
    /\ viewer' = FirstViewer
    /\ warnings' = 0
    /\ UNCHANGED <<today, envKey, started, edits, rejected>>

\* Local midnight passes.
DayAdvance ==
    /\ today < MaxDay
    /\ today' = today + 1
    /\ UNCHANGED <<store, envKey, apiKey, customInstructions, isEcoMode, usageCount,
                   extractedText, resultImage, isLoading, loadingMessage,
                   pasteClosure, dropClosure, runs, started, edits,
                   loadedCount,
                   viewer, rejected, warnings>>

\* -------------------------------------------------------------- settings
CurrentRender == Closure(apiKey, customInstructions, isEcoMode, usageCount)

\* A change of apiKey, customInstructions or isEcoMode renders App again and
\* re-runs the paste and drop effects, which register the new render's handlers.
SettingsChanged(k, c, e) ==
    /\ <<k, c, e>> # <<apiKey, customInstructions, isEcoMode>>
    /\ edits < MaxEdits
    /\ edits' = edits + 1
    /\ apiKey' = k
    /\ customInstructions' = c
    /\ isEcoMode' = e
    /\ pasteClosure' = Closure(k, c, e, usageCount)
    /\ dropClosure' = Closure(k, c, e, usageCount)
    /\ UNCHANGED <<today, store, envKey, usageCount, extractedText, resultImage,
                   isLoading, loadingMessage, runs, started, loadedCount,
                   viewer, rejected, warnings>>

SetApiKey(k) == SettingsChanged(k, customInstructions, isEcoMode)
SetCustomInstructions(c) == SettingsChanged(apiKey, c, isEcoMode)
ToggleEcoMode == SettingsChanged(apiKey, customInstructions, ~isEcoMode)

\* ------------------------------------------------------- acquisition runs
\* setLoadingMessage(isEcoMode ? t.loadingOptimizing : t.loadingUploading)
FirstMessage(closure) ==
    IF closure.isEcoMode THEN "t.loadingOptimizing" ELSE "t.loadingUploading"

\* ai.models.generateContent(...) is called: one request leaves, carrying the
\* cleaned finalBase64 and the prompt.
IssueRequest(r) ==
    [r EXCEPT !.pc = "requesting", !.requests = @ + 1,
              !.sent = CleanBase64(r.final),
              !.prompt = BuildPrompt(TRUE, r.closure.customInstructions)]

\* extractTextFromImage rejected with the mapping of e; the caller's catch block
\* adds the error toast.
RunFailed(r, cause, e) ==
    [r EXCEPT !.pc = "failed", !.cause = cause, !.error = e,
              !.reported = ToastMessage(MapError(e))]

\* Faulty variant: one retry of the request after a rejection.
AfterRejection_Retry(r, e) ==
    IF r.requests < 2 THEN IssueRequest(r) ELSE RunFailed(r, "remote", e)

\* Faulty variant: the formatting pause is entered after a rejection too.
AfterRejection_Formats(r, e) == [r EXCEPT !.pc = "pause2", !.error = e]

\* The run after the remote call rejected with e: no second request.
AfterRejection(r, e) == RunFailed(r, "remote", e)

\* Window paste listener: the first clipboard item of an image type is handed
\* to the processFile of the render the listener was registered in.
\* Window drop listener: the first dropped file is handed to processFile.
\* processFile, for an image: loading state on, result and preview cleared,
\* FileReader started.  With the result text cleared ResultEditor is unmounted
\* and its state is lost.
WindowInput(channel, size) ==
    /\ started < MaxRuns
    /\ LET closure == IF channel = "paste" THEN pasteClosure ELSE dropClosure IN
       /\ runs' = Append(runs, NewRun(closure, FileDataUrl(started + 1, size),
                                      "reading"))
       /\ loadingMessage' = FirstMessage(closure)
    /\ isLoading' = TRUE
    /\ extractedText' = <<>>
    /\ resultImage' = NoImage
    /\ viewer' = FirstViewer
    /\ started' = started + 1
    /\ UNCHANGED <<today, store, envKey, apiKey, customInstructions, isEcoMode,
                   usageCount, pasteClosure, dropClosure, edits, loadedCount,
                   rejected, warnings>>

\* Faulty variant: the preview shows the copy made for transmission.
Preview_Transmitted(r) == ResizeImageBase64(r.image, MaxDimension, TRUE, TRUE)

\* setResultImage(base64): the preview is the data URL the FileReader produced.
Preview(r) == r.image

\* reader.onload of processFile: the preview is set and the first pause begins.
ReadDone(i) ==
    /\ i \in DOMAIN runs
    /\ runs[i].pc = "reading"
    /\ resultImage' = Preview(runs[i])
    /\ runs' = [runs EXCEPT ![i].pc = "pause1"]
    /\ UNCHANGED <<today, store, envKey, apiKey, customInstructions, isEcoMode,
                   usageCount, extractedText, isLoading, loadingMessage,
                   pasteClosure, dropClosure, started, edits, loadedCount,
                   viewer, rejected, warnings>>

\* The FileReader of processFile fails: no onerror handler is set, so onload
\* never runs.
ReadFail(i) ==
    /\ i \in DOMAIN runs
    /\ runs[i].pc = "reading"
    /\ runs' = [runs EXCEPT ![i].pc = "readError"]
    /\ UNCHANGED <<today, store, envKey, apiKey, customInstructions, isEcoMode,
                   usageCount, extractedText, resultImage, isLoading, loadingMessage,
                   pasteClosure, dropClosure, started, edits, loadedCount,
                   viewer, rejected, warnings>>

\* ImageUploader: the file input (disabled while loading) or a drop on the
\* upload area (pointer-events-none while loading) hands an image file to
\* handleFile, which starts a FileReader.  handleChange is created by every
\* render and so calls the current handleImageSelected; handleDrop is memoised
\* with an empty dependency list and so calls that of the first render.
UploaderInput(channel, size) ==
    /\ ~isLoading
    /\ started < MaxRuns
    /\ LET closure == IF channel = "picker" THEN CurrentRender ELSE FirstRender IN
       runs' = Append(runs, NewRun(closure, FileDataUrl(started + 1, size), "uread"))
    /\ started' = started + 1
    /\ UNCHANGED <<today, store, envKey, apiKey, customInstructions, isEcoMode,
                   usageCount, extractedText, resultImage, isLoading, loadingMessage,
                   pasteClosure, dropClosure, edits, loadedCount,
                   viewer, rejected, warnings>>

\* reader.onload of handleFile calls onImageSelected: handleImageSelected turns
\* the loading state on, clears the result, sets the preview and begins the
\* first pause.
UploaderReadDone(i) ==
    /\ i \in DOMAIN runs
    /\ runs[i].pc = "uread"
    /\ isLoading' = TRUE
    /\ loadingMessage' = FirstMessage(runs[i].closure)
    /\ extractedText' = <<>>
    /\ resultImage' = Preview(runs[i])
    /\ viewer' = FirstViewer
    /\ runs' = [runs EXCEPT ![i].pc = "pause1"]
    /\ UNCHANGED <<today, store, envKey, apiKey, customInstructions, isEcoMode,
                   usageCount, pasteClosure, dropClosure, started,
                   edits, loadedCount, rejected, warnings>>

\* The FileReader of handleFile fails: handleImageSelected is never called.
UploaderReadFail(i) ==
    /\ i \in DOMAIN runs
    /\ runs[i].pc = "uread"
    /\ runs' = [runs EXCEPT ![i].pc = "ureadError"]
    /\ UNCHANGED <<today, store, envKey, apiKey, customInstructions, isEcoMode,
                   usageCount, extractedText, resultImage, isLoading, loadingMessage,
                   pasteClosure, dropClosure, started, edits, loadedCount,
                   viewer, rejected, warnings>>

\* The 800 ms pause ends: the analysing message is shown and
\* extractTextFromImage is called with the run's closure values.  Without a key
\* it throws before anything else and its catch block maps the error; with a
\* key it awaits the resize under eco mode, else sends the request.
Pause1Done(i) ==
    LET r == runs[i]
        key == ResolveKey(r.closure.apiKey, envKey)
        called == [r EXCEPT !.extractCalls = @ + 1, !.clientKey = key,
                            !.final = r.image]
        next == IF key = "" THEN RunFailed(called, "missingKey", Err(MissingKeyMessage))
                ELSE IF r.closure.isEcoMode THEN [called EXCEPT !.pc = "resizing"]
                ELSE IssueRequest(called)
    IN
    /\ i \in DOMAIN runs
    /\ r.pc = "pause1"
    /\ runs' = [runs EXCEPT ![i] = next]
    /\ loadingMessage' = "t.loadingAnalyzing"
    /\ isLoading' = IF next.pc = "failed" THEN FALSE ELSE isLoading
    /\ UNCHANGED <<today, store, envKey, apiKey, customInstructions, isEcoMode,
                   usageCount, extractedText, resultImage, pasteClosure,
                   dropClosure, started, edits, loadedCount,
                   viewer, rejected, warnings>>

\* The run after resizeImageBase64 resolved: finalBase64 is what it resolved
\* to and the request is sent.
AfterResize(r, decodes, hasContext) ==
    IssueRequest([r EXCEPT !.resizes = @ + 1,
                           !.final = ResizeImageBase64(r.image, MaxDimension,
                                                       decodes, hasContext)])

\* img.onload of resizeImageBase64, with or without a 2d context.
ResizeDone(i, hasContext) ==
    /\ i \in DOMAIN runs
    /\ runs[i].pc = "resizing"
    /\ runs' = [runs EXCEPT ![i] = AfterResize(runs[i], TRUE, hasContext)]
    /\ UNCHANGED <<today, store, envKey, apiKey, customInstructions, isEcoMode,
                   usageCount, extractedText, resultImage, isLoading, loadingMessage,
                   pasteClosure, dropClosure, started, edits, loadedCount,
                   viewer, rejected, warnings>>

\* img.onerror of resizeImageBase64: the image cannot be decoded.
ResizeError(i) ==
    /\ i \in DOMAIN runs
    /\ runs[i].pc = "resizing"
    /\ runs' = [runs EXCEPT ![i] = AfterResize(runs[i], FALSE, FALSE)]
    /\ UNCHANGED <<today, store, envKey, apiKey, customInstructions, isEcoMode,
                   usageCount, extractedText, resultImage, isLoading, loadingMessage,
                   pasteClosure, dropClosure, started, edits, loadedCount,
                   viewer, rejected, warnings>>

\* The remote call resolves: extractTextFromImage returns response.text || "",
\* the formatting message is shown and the 500 ms pause begins.
RemoteSuccess(i, resp) ==
    /\ i \in DOMAIN runs
    /\ runs[i].pc = "requesting"
    /\ runs' = [runs EXCEPT ![i].pc = "pause2", ![i].text = ResponseText(resp)]
    /\ loadingMessage' = "t.loadingFormatting"
    /\ UNCHANGED <<today, store, envKey, apiKey, customInstructions, isEcoMode,
                   usageCount, extractedText, resultImage, isLoading, pasteClosure,
                   dropClosure, started, edits, loadedCount,
                   viewer, rejected, warnings>>

\* The remote call rejects: the catch block of extractTextFromImage maps the
\* error, the caller's catch adds the error toast, finally clears loading.
RemoteFailure(i, e) ==
    LET next == AfterRejection(runs[i], e) IN
    /\ i \in DOMAIN runs
    /\ runs[i].pc = "requesting"
    /\ runs' = [runs EXCEPT ![i] = next]
    /\ isLoading' = IF next.pc = "failed" THEN FALSE ELSE isLoading
    /\ UNCHANGED <<today, store, envKey, apiKey, customInstructions, isEcoMode,
                   usageCount, extractedText, resultImage, loadingMessage,
                   pasteClosure, dropClosure, started, edits, loadedCount,
                   viewer, rejected, warnings>>

\* The 500 ms pause ends: the text is stored, incrementUsage of the run's
\* render is called, the success toast is added, finally clears loading.
Pause2Done(i) ==
    LET r == runs[i] IN
    /\ i \in DOMAIN runs
    /\ r.pc = "pause2"
    /\ extractedText' = r.text
    /\ usageCount' = NewCount(r.closure)
    /\ store' = [store EXCEPT !.usage_count = NumToString(NewCount(r.closure))]
    /\ isLoading' = FALSE
    /\ viewer' = ShowResult(viewer, extractedText, r.text)
    /\ runs' = [runs EXCEPT ![i].pc = "done", ![i].reported = <<"t.toastSuccess">>]
    /\ UNCHANGED <<today, envKey, apiKey, customInstructions, isEcoMode, resultImage,
                   loadingMessage, pasteClosure, dropClosure, started, edits, loadedCount,
                   rejected, warnings>>

\* localStorage.setItem throws (storage full or denied).
StorageErrorMessage ==
    <<"Failed to execute 'setItem' on 'Storage': Setting the value of 'usage_count' exceeded the quota.">>

\* The 500 ms pause ends and the write of incrementUsage throws: the text and
\* the new count are already set, the exception leaves the try block before
\* the success toast, the catch block adds the error toast, finally clears
\* loading.
Pause2DoneWriteFails(i) ==
    LET r == runs[i] IN
    /\ i \in DOMAIN runs
    /\ r.pc = "pause2"
    /\ extractedText' = r.text
    /\ usageCount' = NewCount(r.closure)
    /\ isLoading' = FALSE
    /\ viewer' = ShowResult(viewer, extractedText, r.text)
    /\ runs' = [runs EXCEPT ![i].pc = "failed", ![i].cause = "storage",
                            ![i].error = Err(StorageErrorMessage),
                            ![i].reported = ToastMessage(StorageErrorMessage)]
    /\ UNCHANGED <<today, store, envKey, apiKey, customInstructions, isEcoMode,
                   resultImage, loadingMessage, pasteClosure, dropClosure, started,
                   edits, loadedCount, rejected, warnings>>

\* ------------------------------------------------------- refused inputs
\* Everything an input that is not an image must leave alone.
RunState == <<store, usageCount, extractedText, resultImage, isLoading,
              loadingMessage, runs, started, viewer>>
Settings == <<today, envKey, apiKey, customInstructions, isEcoMode, pasteClosure,
              dropClosure, edits, loadedCount>>

\* Faulty variant: the loading state is entered before the type is looked at.
ProcessFileRefuses_AfterLoading ==
    /\ warnings' = warnings + 1
    /\ isLoading' = TRUE
    /\ extractedText' = <<>>
    /\ resultImage' = NoImage
    /\ UNCHANGED <<store, usageCount, loadingMessage, runs, started, viewer>>

\* processFile with a file whose type does not start with "image/": the
\* warning toast is added and the function returns.
ProcessFileRefuses ==
    /\ warnings' = warnings + 1
    /\ UNCHANGED RunState

\* The window drop listener hands the first dropped file, whatever its type,
\* to processFile.
WindowDropNonImage ==
    /\ rejected < MaxRejected
    /\ rejected' = rejected + 1
    /\ ProcessFileRefuses
    /\ UNCHANGED Settings

\* The paste listener looks for an item whose type contains "image"; with none
\* (pasted text) it does nothing.
PasteNonImage ==
    /\ rejected < MaxRejected
    /\ rejected' = rejected + 1
    /\ UNCHANGED <<RunState, Settings, warnings>>

\* handleFile of ImageUploader, from the file input or from a drop on the
\* upload area, returns at once for a file that is not an image.
UploaderNonImage(channel) ==
    /\ ~isLoading
    /\ rejected < MaxRejected
    /\ rejected' = rejected + 1
    /\ UNCHANGED <<RunState, Settings, warnings>>

\* ------------------------------------------------------- viewer handlers
\* The zoom controls and the image pane exist while ResultEditor is mounted
\* (extractedText is not empty) with an image.  The zoom buttons are disabled
\* at the limits; the handlers clamp by themselves.
ViewerShown == extractedText # <<>> /\ resultImage # NoImage

SetViewer(v) ==
    /\ ViewerShown
    /\ viewer' = v
    /\ UNCHANGED <<today, store, envKey, apiKey, customInstructions, isEcoMode,
                   usageCount, extractedText, resultImage, isLoading, loadingMessage,
                   pasteClosure, dropClosure, runs, started, edits, loadedCount,
                   rejected, warnings>>

\* Faulty variant: zooming in without the upper limit.
ZoomedIn_Unclamped(prev) == prev + 1

\* Math.min(prev + 0.5, 4)
ZoomedIn(prev) == Min(prev + 1, MaxScale)
\* Math.max(prev - 0.5, 1)
ZoomedOut(prev) == Max(prev - 1, MinScale)

\* The state of the viewer after each zoom handler.
AfterZoomIn(v) == [v EXCEPT !.scale = ZoomedIn(@)]
\* Faulty variant: zooming out leaves the position alone.
AfterZoomOut_KeepsPosition(v) == [v EXCEPT !.scale = ZoomedOut(@)]

AfterZoomOut(v) ==
    LET newScale == ZoomedOut(v.scale) IN
    [v EXCEPT !.scale = newScale,
              !.position = IF newScale = MinScale THEN Origin ELSE @]
AfterResetZoom(v) == [v EXCEPT !.scale = MinScale, !.position = Origin]

handleZoomIn == SetViewer(AfterZoomIn(viewer))
handleZoomOut == SetViewer(AfterZoomOut(viewer))
handleResetZoom == SetViewer(AfterResetZoom(viewer))

\* Pointer coordinates (clientX, clientY).
MouseCoords == 0..1

handleMouseDown(x, y) ==
    SetViewer(IF viewer.scale > MinScale
              THEN [viewer EXCEPT !.isDragging = TRUE,
                                  !.dragStart = Point(x - viewer.position.x,
                                                      y - viewer.position.y)]
              ELSE viewer)

handleMouseMove(x, y) ==
    LET moved == Point(x - viewer.dragStart.x, y - viewer.dragStart.y) IN
    /\ moved.x \in -MaxPan..MaxPan
    /\ moved.y \in -MaxPan..MaxPan
    /\ SetViewer(IF viewer.isDragging /\ viewer.scale > MinScale
                 THEN [viewer EXCEPT !.position = moved]
                 ELSE viewer)

\* onMouseUp and onMouseLeave
handleMouseUp == SetViewer([viewer EXCEPT !.isDragging = FALSE])

\* The two direction buttons of the editor.
Directions == {"rtl", "ltr"}
setDirection(d) ==
    /\ extractedText # <<>>
    /\ viewer' = [viewer EXCEPT !.direction = d]
    /\ UNCHANGED <<today, store, envKey, apiKey, customInstructions, isEcoMode,
                   usageCount, extractedText, resultImage, isLoading, loadingMessage,
                   pasteClosure, dropClosure, runs, started, edits, loadedCount,
                   rejected, warnings>>

\* -------------------------------------------------------- specification
\* Spec: concurrent runs of one image, with one representative failure of the
\* remote call and an absent, an empty and a non-empty response text.
NetworkError == Err(<<"F","a","i","l","e","d"," ","t","o"," ","f","e","t","c","h">>)
SomeResponses == {NoTextResponse, Resp(<<>>), Resp(<<"H","i">>)}

Next ==
    \/ \E urlKey \in Keys, savedKey \in Keys, savedEco \in EcoValues :
          PageLoad(urlKey, savedKey, savedEco)
    \/ DayAdvance
    \/ \E k \in Keys : SetApiKey(k)
    \/ \E c \in Instructions : SetCustomInstructions(c)
    \/ ToggleEcoMode
    \/ \E ch \in WindowChannels : WindowInput(ch, BigImage)
    \/ \E ch \in UploaderChannels : UploaderInput(ch, BigImage)
    \/ \E i \in 1..MaxRuns : ReadDone(i)
    \/ \E i \in 1..MaxRuns : ReadFail(i)
    \/ \E i \in 1..MaxRuns : UploaderReadDone(i)
    \/ \E i \in 1..MaxRuns : UploaderReadFail(i)
    \/ \E i \in 1..MaxRuns : Pause1Done(i)
    \/ \E i \in 1..MaxRuns, hasContext \in BOOLEAN : ResizeDone(i, hasContext)
    \/ \E i \in 1..MaxRuns : ResizeError(i)
    \/ \E i \in 1..MaxRuns, resp \in SomeResponses : RemoteSuccess(i, resp)
    \/ \E i \in 1..MaxRuns : RemoteFailure(i, NetworkError)
    \/ \E i \in 1..MaxRuns : Pause2Done(i)

Spec == Init /\ [][Next]_vars

\* SpecErrors: every failure and every response of the remote call, with one
\* input of one image per page load.
NextErrors ==
    \/ \E urlKey \in Keys, savedKey \in Keys, savedEco \in EcoValues :
          PageLoad(urlKey, savedKey, savedEco)
    \/ DayAdvance
    \/ \E k \in Keys : SetApiKey(k)
    \/ \E c \in Instructions : SetCustomInstructions(c)
    \/ ToggleEcoMode
    \/ \E ch \in WindowChannels : runs = <<>> /\ WindowInput(ch, BigImage)
    \/ \E ch \in UploaderChannels : runs = <<>> /\ UploaderInput(ch, BigImage)
    \/ \E i \in 1..MaxRuns : ReadDone(i)
    \/ \E i \in 1..MaxRuns : ReadFail(i)
    \/ \E i \in 1..MaxRuns : UploaderReadDone(i)
    \/ \E i \in 1..MaxRuns : UploaderReadFail(i)
    \/ \E i \in 1..MaxRuns : Pause1Done(i)
    \/ \E i \in 1..MaxRuns, hasContext \in BOOLEAN : ResizeDone(i, hasContext)
    \/ \E i \in 1..MaxRuns : ResizeError(i)
    \/ \E i \in 1..MaxRuns, resp \in RemoteResponses : RemoteSuccess(i, resp)
    \/ \E i \in 1..MaxRuns, e \in RemoteErrors : RemoteFailure(i, e)
    \/ \E i \in 1..MaxRuns : Pause2Done(i)

SpecErrors == Init /\ [][NextErrors]_vars

\* SpecRequests: one input after a page load, with every image size and every
\* instructions text.
SomeText == Resp(<<"H","i">>)

NextRequests ==
    \/ \E k \in Keys : SetApiKey(k)
    \/ \E c \in PromptInstructions : SetCustomInstructions(c)
    \/ ToggleEcoMode
    \/ \E ch \in WindowChannels, size \in ImageSizes :
          runs = <<>> /\ WindowInput(ch, size)
    \/ \E ch \in UploaderChannels, size \in ImageSizes :
          runs = <<>> /\ UploaderInput(ch, size)
    \/ \E i \in 1..MaxRuns : ReadDone(i)
    \/ \E i \in 1..MaxRuns : UploaderReadDone(i)
    \/ \E i \in 1..MaxRuns : Pause1Done(i)
    \/ \E i \in 1..MaxRuns, hasContext \in BOOLEAN : ResizeDone(i, hasContext)
    \/ \E i \in 1..MaxRuns : ResizeError(i)
    \/ \E i \in 1..MaxRuns : RemoteSuccess(i, SomeText)
    \/ \E i \in 1..MaxRuns : RemoteFailure(i, NetworkError)
    \/ \E i \in 1..MaxRuns : Pause2Done(i)

SpecRequests == Init /\ [][NextRequests]_vars

\* SpecInputs: images arrive one after the other, from every channel; inputs
\* that are not images arrive at any time, also while a run is in flight.  The
\* settings stay as loaded.
NoRunPending == \A i \in DOMAIN runs : runs[i].pc \in {"done", "failed", "ureadError"}

NextInputs ==
    \/ \E ch \in WindowChannels : NoRunPending /\ WindowInput(ch, BigImage)
    \/ \E ch \in UploaderChannels : NoRunPending /\ UploaderInput(ch, BigImage)
    \/ WindowDropNonImage
    \/ PasteNonImage
    \/ \E ch \in UploaderChannels : UploaderNonImage(ch)
    \/ \E i \in 1..MaxRuns : ReadDone(i)
    \/ \E i \in 1..MaxRuns : ReadFail(i)
    \/ \E i \in 1..MaxRuns : UploaderReadDone(i)
    \/ \E i \in 1..MaxRuns : UploaderReadFail(i)
    \/ \E i \in 1..MaxRuns : Pause1Done(i)
    \/ \E i \in 1..MaxRuns, hasContext \in BOOLEAN : ResizeDone(i, hasContext)
    \/ \E i \in 1..MaxRuns : ResizeError(i)
    \/ \E i \in 1..MaxRuns : RemoteSuccess(i, SomeText)
    \/ \E i \in 1..MaxRuns : RemoteFailure(i, NetworkError)
    \/ \E i \in 1..MaxRuns : Pause2Done(i)

SpecInputs == Init /\ [][NextInputs]_vars

\* SpecInputsFair: as SpecInputs, and every file read, pause, resize and remote
\* call that is pending eventually completes or fails.
RunFairness(i) ==
    /\ WF_vars(ReadDone(i) \/ ReadFail(i))
    /\ WF_vars(UploaderReadDone(i) \/ UploaderReadFail(i))
    /\ WF_vars(Pause1Done(i))
    /\ WF_vars(ResizeDone(i, TRUE) \/ ResizeDone(i, FALSE) \/ ResizeError(i))
    /\ WF_vars(RemoteSuccess(i, SomeText) \/ RemoteFailure(i, NetworkError))
    /\ WF_vars(Pause2Done(i))

SpecInputsFair == SpecInputs /\ \A i \in 1..MaxRuns : RunFairness(i)

\* SpecViewer: the handlers of ResultEditor, started from the state in which
\* the first image, picked with the file input on a fresh page, has been read
\* with the environment key.
ViewerRun ==
    LET read == NewRun(FirstRender, FileDataUrl(1, BigImage), "pause1")
        sent == IssueRequest([read EXCEPT !.extractCalls = 1, !.clientKey = "envk",
                                          !.final = read.image])
    IN [sent EXCEPT !.pc = "done", !.text = SomeText.text,
                    !.reported = <<"t.toastSuccess">>]

InitViewer ==
    /\ today = 1
    /\ envKey = "envk"
    /\ store = [usage_date |-> 1, usage_count |-> <<"1">>]
    /\ apiKey = ""
    /\ customInstructions = <<>>
    /\ isEcoMode = FALSE
    /\ usageCount = 1
    /\ extractedText = SomeText.text
    /\ resultImage = FileDataUrl(1, BigImage)
    /\ isLoading = FALSE
    /\ loadingMessage = "t.loadingFormatting"
    /\ pasteClosure = FirstRender
    /\ dropClosure = FirstRender
    /\ runs = <<ViewerRun>>
    /\ started = 1
    /\ edits = 0
    /\ loadedCount = 0
    /\ viewer = ShowResult(FirstViewer, <<>>, SomeText.text)
    /\ rejected = 0
    /\ warnings = 0

NextViewer ==
    \/ handleZoomIn
    \/ handleZoomOut
    \/ handleResetZoom
    \/ \E x \in MouseCoords, y \in MouseCoords : handleMouseDown(x, y)
    \/ \E x \in MouseCoords, y \in MouseCoords : handleMouseMove(x, y)
    \/ handleMouseUp
    \/ \E d \in Directions : setDirection(d)

SpecViewer == InitViewer /\ [][NextViewer]_vars

\* SpecOverlap: inputs arrive from the window while earlier runs are in flight;
\* the remote call answers with a Latin or a non-Latin text or fails, and the
\* write of the usage count can fail.  The settings stay as loaded.
TwoTexts == {Resp(<<"H","i">>), Resp(<<"fa:salam">>)}

NextOverlap ==
    \/ \E ch \in WindowChannels : WindowInput(ch, BigImage)
    \/ \E ch \in UploaderChannels : UploaderInput(ch, BigImage)
    \/ \E i \in 1..MaxRuns : ReadDone(i)
    \/ \E i \in 1..MaxRuns : UploaderReadDone(i)
    \/ \E i \in 1..MaxRuns : Pause1Done(i)
    \/ \E i \in 1..MaxRuns, hasContext \in BOOLEAN : ResizeDone(i, hasContext)
    \/ \E i \in 1..MaxRuns, resp \in TwoTexts : RemoteSuccess(i, resp)
    \/ \E i \in 1..MaxRuns : RemoteFailure(i, NetworkError)
    \/ \E i \in 1..MaxRuns : Pause2Done(i)
    \/ \E i \in 1..MaxRuns : Pause2DoneWriteFails(i)
    \/ \E d \in Directions : setDirection(d)

SpecOverlap == Init /\ [][NextOverlap]_vars

\* ------------------------------------------------------------------ claims
RunIds == 1..Len(runs)
InFlightRuns == {i \in RunIds : InFlight(runs[i])}
DoneRuns == {i \in RunIds : runs[i].pc = "done"}
StoredCount == ParseInt(store.usage_count)

\* Run i reaches pc in this step.
Reaches(i, pc) ==
    /\ i \in 1..Len(runs)
    /\ i <= Len(runs')
    /\ runs[i].pc # pc
    /\ runs'[i].pc = pc

\* C1: at most one acquisition run is in flight (started, not yet Done or
\* Failed) at any time, whatever channel the inputs arrive from.
C1_OneRunInFlight == Cardinality(InFlightRuns) <= 1

\* C2: in a session that started from a count of 0 and stays on one calendar
\* day, after N runs ended in Done the usage count, in memory and persisted,
\* is N and remaining is max(0, 1500 - N).
C2_CountIsDoneRuns ==
    LET N == Cardinality(DoneRuns) IN
    (loadedCount = 0 /\ store.usage_date = today) =>
        /\ usageCount = N
        /\ StoredCount = N
        /\ RemainingRequests(usageCount) = Max(0, 1500 - N)

\* C3: within one calendar day neither the in-memory nor the persisted usage
\* count decreases in any step (page load, run ending in Done or in Failed):
\* a step that starts with today's count and stays on that day.
C3_CountNeverDecreases ==
    [][(store.usage_date = today /\ today' = today) =>
         /\ usageCount' >= usageCount
         /\ ParseInt(store'.usage_count) >= StoredCount]_vars

\* C4: a step in which a run ends in Done increments the usage count (in
\* memory and persisted) by exactly 1, and a step in which a run ends in
\* Failed leaves it unchanged.  (A rejected input changes no variable.)
C4_IncrementPerDone ==
    [][\A i \in RunIds :
         /\ Reaches(i, "done") =>
               /\ usageCount' = usageCount + 1
               /\ ParseInt(store'.usage_count) = StoredCount + 1
         /\ Reaches(i, "failed") =>
               /\ usageCount' = usageCount
               /\ store'.usage_count = store.usage_count]_vars

\* C5: whenever the usage count is loaded or incremented while the persisted
\* date differs from today, the count is first reset to 0 and the persisted
\* date set to today: after the step the persisted date is today and the count
\* is at most the one increment of the step.
C5_ResetOnNewDay ==
    [][(usageCount' # usageCount \/ store' # store) =>
         /\ store'.usage_date = today'
         /\ store.usage_date # today => usageCount' <= 1]_vars

\* C6: when neither a caller-supplied key nor an environment default key
\* exists, extract fails before any resize or remote request, and the message
\* that reaches the caller is the missing-key message, not the invalid-key one.
C6_MissingKeyFailsFirst ==
    \A i \in RunIds :
        (runs[i].extractCalls > 0 /\ runs[i].closure.apiKey = "" /\ envKey = "") =>
            /\ runs[i].pc = "failed"
            /\ runs[i].resizes = 0
            /\ runs[i].requests = 0
            /\ runs[i].reported = MissingKeyMessage
            /\ runs[i].reported # InvalidKeyMessage

C6_Witness ==
    \E i \in RunIds :
        /\ runs[i].extractCalls > 0
        /\ runs[i].closure.apiKey = ""
        /\ envKey = ""
        /\ runs[i].pc = "failed"

\* Letters of the words looked for, folded to lower case.
Lower(c) ==
    CASE c = "A" -> "a" [] c = "E" -> "e" [] c = "H" -> "h" [] c = "I" -> "i"
      [] c = "K" -> "k" [] c = "O" -> "o" [] c = "R" -> "r" [] c = "T" -> "t"
      [] c = "U" -> "u" [] c = "Y" -> "y" [] c = "Z" -> "z" [] OTHER -> c
LowerSeq(m) == [j \in 1..Len(m) |-> Lower(m[j])]

\* A message that mentions authorization, a key or "403".
MentionsAuthKeyOr403(m) ==
    \/ Includes(LowerSeq(m), <<"a","u","t","h","o","r","i","z">>)
    \/ Includes(LowerSeq(m), <<"k","e","y">>)
    \/ Includes(m, <<"4","0","3">>)

\* A run whose remote call was rejected with a value that has a message.
RemoteFailed(i) ==
    runs[i].pc = "failed" /\ runs[i].requests > 0 /\ runs[i].error.has

\* C7 as stated: a remote failure whose message mentions authorization, a key
\* or "403" is reported with the rewritten invalid-key message.
C7_Original ==
    \A i \in RunIds :
        (RemoteFailed(i) /\ MentionsAuthKeyOr403(runs[i].error.message)) =>
            runs[i].reported = InvalidKeyMessage

\* C7 as amended: a remote failure whose message contains the text "API key"
\* or the text "403" is reported with the rewritten invalid-key message, never
\* with the underlying or the generic message.
C7_LiteralMatchIsInvalidKey ==
    \A i \in RunIds :
        (/\ RemoteFailed(i)
         /\ \/ Includes(runs[i].error.message, <<"A","P","I"," ","k","e","y">>)
            \/ Includes(runs[i].error.message, <<"4","0","3">>)) =>
            /\ runs[i].reported = InvalidKeyMessage
            /\ runs[i].reported # runs[i].error.message
            /\ runs[i].reported # GenericMessage

C7_Witness ==
    \E i \in RunIds :
        /\ RemoteFailed(i)
        /\ Includes(runs[i].error.message, <<"4","0","3">>)
        /\ ~Includes(runs[i].error.message, <<"A","P","I"," ","k","e","y">>)
        /\ runs[i].reported = InvalidKeyMessage

\* C8: a failure of extract not classified MissingKey or InvalidKey is
\* reported with the underlying message, or with the generic phrase when the
\* underlying failure has an empty or absent message; nothing else is reported.
C8_OtherFailuresSurface ==
    \A i \in RunIds :
        runs[i].pc = "failed" =>
            \/ runs[i].reported \in {MissingKeyMessage, InvalidKeyMessage}
            \/ /\ runs[i].error.has
               /\ runs[i].error.message # <<>>
               /\ runs[i].reported = runs[i].error.message
            \/ /\ ~runs[i].error.has \/ runs[i].error.message = <<>>
               /\ runs[i].reported = GenericMessage

\* C9: a run whose remote call succeeded with empty or absent text has the
\* empty string as its result and ends in Done: the result is stored as empty
\* text, the quota is incremented and the success notification is emitted.
C9_EmptyTextIsDone ==
    [][\A i \in RunIds :
         (runs[i].pc = "pause2" /\ runs[i].text = <<>> /\ i <= Len(runs')
            /\ runs'[i].pc # "pause2") =>
               /\ runs'[i].pc = "done"
               /\ extractedText' = <<>>
               /\ usageCount' = usageCount + 1
               /\ runs'[i].reported = <<"t.toastSuccess">>]_vars

\* C10: a run calls extract at most once, a call sends at most one request and
\* none after a failure; a run that ended called extract exactly once and sent
\* exactly one request if a key was resolved, none otherwise.
C10_OneRequestPerRun ==
    \A i \in RunIds :
        /\ runs[i].extractCalls <= 1
        /\ runs[i].requests <= runs[i].extractCalls
        /\ Ended(runs[i]) =>
              /\ runs[i].extractCalls = 1
              /\ runs[i].requests =
                    IF ResolveKey(runs[i].closure.apiKey, envKey) # "" THEN 1 ELSE 0

C10_Witness ==
    \E i \in RunIds :
        /\ runs[i].pc = "failed"
        /\ runs[i].requests = 1
        /\ runs[i].extractCalls = 1

\* A run that has sent its request.
Requested(i) == runs[i].requests > 0
Large(u) == u.w > 1000 \/ u.h > 1000

\* C11: the preview of a run is the original image data the file reader
\* produced, with eco mode on or off; the resized copy appears only in what is
\* transmitted.
C11_PreviewIsOriginal ==
    /\ resultImage # NoImage => resultImage.enc = "file"
    /\ \A i \in RunIds :
          runs[i].pc \notin {"reading", "uread", "ureadError", "readError"} =>
              /\ resultImage = runs[i].image
              /\ resultImage.enc = "file"

C11_Witness ==
    \E i \in RunIds :
        /\ Requested(i)
        /\ runs[i].closure.isEcoMode
        /\ runs[i].sent = Body(DataUrl(i, 1000, 250, "canvas"))
        /\ resultImage = DataUrl(i, 2000, 500, "file")

\* C12: for an image with a dimension over 1000, a resize that draws the image
\* gives an image whose larger dimension is 1000 and whose other dimension is
\* the original one scaled by the same factor, to within one pixel.
C12_ScaledToMax ==
    \A i \in RunIds :
        (runs[i].resizes > 0 /\ Large(runs[i].image)
           /\ runs[i].final # runs[i].image) =>
            LET o == runs[i].image
                n == runs[i].final
                oLarger == Max(o.w, o.h)
                oOther == Min(o.w, o.h)
                nOther == IF o.w > o.h THEN n.h ELSE n.w
                nLarger == IF o.w > o.h THEN n.w ELSE n.h
                d == nOther * oLarger - oOther * 1000
            IN /\ Max(n.w, n.h) = 1000
               /\ nLarger = 1000
               /\ d <= oLarger /\ -d <= oLarger

\* C13: what is transmitted is the encoded body of the original image unless
\* the run has eco mode on and the image has a dimension over 1000; with eco
\* mode off no resize is run, and a resize of an image with both dimensions at
\* most 1000 resolves to its input.
C13_OriginalUnlessEcoAndLarge ==
    \A i \in RunIds :
        Requested(i) =>
            /\ ~(runs[i].closure.isEcoMode /\ Large(runs[i].image)) =>
                  runs[i].sent = Body(runs[i].image)
            /\ ~runs[i].closure.isEcoMode => runs[i].resizes = 0
            /\ (runs[i].closure.isEcoMode /\ ~Large(runs[i].image)) =>
                  /\ runs[i].resizes = 1
                  /\ runs[i].final = runs[i].image

C13_Witness ==
    \E i \in RunIds :
        /\ Requested(i)
        /\ runs[i].closure.isEcoMode
        /\ runs[i].image = DataUrl(i, 1000, 1000, "file")
        /\ runs[i].resizes = 1
        /\ runs[i].sent = Body(runs[i].image)

\* C14: whatever the outcome of decoding, of getting a drawing context and of
\* encoding, the resize resolves and the request is sent; when it produced no
\* resized image, it resolved to the unmodified original.
C14_FailureKeepsOriginal ==
    \A i \in RunIds :
        runs[i].resizes > 0 =>
            /\ Requested(i)
            /\ runs[i].final.enc # "canvas" => runs[i].final = runs[i].image

\* Blank text: nothing but white space.
Blank(c) == \A k \in 1..Len(c) : c[k] \in {" ", "\n", "\t"}

\* C15: with instructions that are not blank the prompt is the base rules, the
\* delimited priority block holding the instructions, then the output-only
\* directive; with absent, empty or blank instructions it is the base rules
\* directly followed by the directive.
C15_PromptParts ==
    /\ \A i \in RunIds :
          Requested(i) =>
              LET c == runs[i].closure.customInstructions IN
              runs[i].prompt =
                  IF Blank(c)
                  THEN BaseRules \o OutputOnly
                  ELSE BaseRules \o CustomBlockHead \o c \o CustomBlockEnd \o OutputOnly
    /\ BuildPrompt(FALSE, customInstructions) = BaseRules \o OutputOnly

C15_Witness ==
    \E i \in RunIds :
        /\ Requested(i)
        /\ runs[i].closure.customInstructions = <<" ", "X", "\n">>
        /\ Len(runs[i].prompt) = Len(BaseRules) + Len(CustomBlockHead) + 3
                                  + Len(CustomBlockEnd) + Len(OutputOnly)

\* C16: the client is created with the caller's key whenever that key is not
\* empty, whether or not an environment key exists; the environment key is
\* used only when the caller gives none.
C16_CallerKeyFirst ==
    \A i \in RunIds :
        runs[i].extractCalls > 0 =>
            /\ runs[i].closure.apiKey # "" => runs[i].clientKey = runs[i].closure.apiKey
            /\ runs[i].closure.apiKey = "" => runs[i].clientKey = envKey
            /\ runs[i].clientKey = envKey =>
                  (runs[i].closure.apiKey = "" \/ runs[i].closure.apiKey = envKey)

C16_Witness ==
    \E i \in RunIds :
        /\ Requested(i)
        /\ runs[i].closure.apiKey = "k1"
        /\ envKey = "envk"
        /\ runs[i].clientKey = "k1"

\* C17: the scale is a multiple of 0.5 from 1 to 4 (2 to 8 steps of 0.5);
\* zooming in at scale 4 and zooming out at scale 1 leave the viewer as it is;
\* four zoom-ins from scale 1 give scale 3.
C17_ScaleInRange ==
    /\ viewer.scale \in 2..8
    /\ viewer.scale = 8 => AfterZoomIn(viewer) = viewer
    /\ viewer.scale = 2 => AfterZoomOut(viewer) = viewer
    /\ viewer.scale = 2 =>
          AfterZoomIn(AfterZoomIn(AfterZoomIn(AfterZoomIn(viewer)))).scale = 6
    /\ AfterResetZoom(viewer).scale = 2

C17_Witness ==
    /\ viewer.scale = 8
    /\ viewer.position # Origin
    /\ viewer.isDragging

\* The progress state of a run.
Progress(r) ==
    CASE r.pc \in {"uread", "ureadError"} -> "Idle"
      [] r.pc \in {"reading", "readError", "pause1"} -> "Uploading"
      [] r.pc \in {"resizing", "requesting"} -> "Analyzing"
      [] r.pc = "pause2" -> "Formatting"
      [] r.pc = "done" -> "Done"
      [] r.pc = "failed" -> "Failed"

\* C18: a run passes through Uploading, Analyzing, Formatting, Done in that
\* order; Formatting is entered only from Analyzing, after the remote call
\* succeeded; a run fails only from Analyzing (with a missing key, in the step
\* that shows the analysing message) and never after Formatting.
C18_ProgressOrder ==
    [][\A i \in RunIds :
         (i <= Len(runs') /\ Progress(runs'[i]) # Progress(runs[i])) =>
            LET from == Progress(runs[i])
                to == Progress(runs'[i])
            IN \/ from = "Idle" /\ to = "Uploading"
               \/ from = "Uploading" /\ to = "Analyzing"
                    /\ loadingMessage' = "t.loadingAnalyzing"
               \/ from = "Uploading" /\ to = "Failed"
                    /\ loadingMessage' = "t.loadingAnalyzing"
                    /\ runs'[i].extractCalls = 1
               \/ from = "Analyzing" /\ to = "Formatting"
                    /\ runs'[i].error = NoError
                    /\ loadingMessage' = "t.loadingFormatting"
               \/ from = "Analyzing" /\ to = "Failed"
               \/ from = "Formatting" /\ to = "Done"]_vars

C18_Witness ==
    \E i \in RunIds :
        /\ runs[i].pc = "done"
        /\ loadingMessage = "t.loadingFormatting"
        /\ \E j \in RunIds : runs[j].pc = "failed" /\ runs[j].requests = 1 /\ j < i

\* C19: every run that has started eventually ends in Done or Failed with the
\* loading state off, given that every pending read, pause, resize and remote
\* call eventually completes or fails.
C19_RunsEnd ==
    \A i \in 1..MaxRuns :
        (i \in DOMAIN runs /\ Started(runs[i]))
            ~> (i \in DOMAIN runs /\ Ended(runs[i]) /\ ~isLoading)

\* C20: an input that is not an image, from any channel, starts no run: the
\* loading flag, the loading message, the result text, the preview, the usage
\* count (in memory and persisted) and the runs with their requests are left
\* as they were.
C20_NonImageChangesNothing ==
    [][rejected' # rejected =>
         UNCHANGED <<isLoading, loadingMessage, extractedText, resultImage,
                     usageCount, store, runs, started>>]_vars

C20_Witness ==
    /\ rejected = 2
    /\ warnings = 1
    /\ isLoading
    /\ \E i \in RunIds : runs[i].pc = "requesting"

\* C21: when the write of the usage count fails, the run still ends in Done
\* with the success notification and without a failure notification, the
\* result kept.
C21_WriteFailureIsSilent ==
    \A i \in RunIds :
        runs[i].cause = "storage" =>
            /\ runs[i].pc = "done"
            /\ runs[i].reported = <<"t.toastSuccess">>

\* C22: at scale 1 the pan offset is (0,0); the offset changes only while the
\* scale is above 1 and the pointer is down, or to (0,0) by a reset or by a
\* zoom-out that reaches scale 1; a reset always gives scale 1 at (0,0).
C22_NoPanAtScaleOne ==
    [][/\ viewer'.scale = 2 => viewer'.position = Origin
       /\ viewer'.position # viewer.position =>
             \/ viewer.scale > 2 /\ viewer.isDragging /\ viewer'.scale = viewer.scale
             \/ viewer'.position = Origin /\ viewer'.scale = 2
       /\ AfterResetZoom(viewer).position = Origin
       /\ (viewer.scale = 3 => AfterZoomOut(viewer).position = Origin)]_vars

C22_Witness ==
    /\ viewer.scale = 2
    /\ viewer.position = Origin
    /\ viewer.isDragging
    /\ viewer.dragStart # Origin

\* The first character of a text that is not white space is a Latin letter.
RECURSIVE FirstLetterLatin(_)
FirstLetterLatin(t) ==
    /\ t # <<>>
    /\ IF Head(t) \in {" ", "\n", "\t"} THEN FirstLetterLatin(Tail(t))
       ELSE Head(t) \in LatinLetters

\* C23: when a new result text is shown, the direction is left-to-right if
\* the trimmed text begins with a Latin letter and right-to-left otherwise,
\* whatever the direction was for the previous result.
C23_DirectionFollowsText ==
    [][(extractedText' # extractedText /\ extractedText' # <<>>) =>
         viewer'.direction =
             IF FirstLetterLatin(extractedText') THEN "ltr" ELSE "rtl"]_vars

\* C24: the loading flag is on whenever a run has started and not ended.
C24_LoadingWhileInFlight == InFlightRuns # {} => isLoading

\* C25: a displayed result text and the displayed source image belong to one
\* run: some run that ended in Done has that text and that image.
C25_TextMatchesImage ==
    extractedText # <<>> =>
        \E i \in DoneRuns :
            /\ runs[i].text = extractedText
            /\ runs[i].image = resultImage

\* C26: a run is started with the key, the instructions and the eco mode that
\* are in effect when its input arrives, whatever the channel.
C26_CurrentSettingsUsed ==
    [][Len(runs') = Len(runs) + 1 =>
         LET c == runs'[Len(runs')].closure IN
         /\ c.apiKey = apiKey
         /\ c.customInstructions = customInstructions
         /\ c.isEcoMode = isEcoMode]_vars

\* C27: the step in which a run starts clears the result text, and after the
\* step in which a run ends in Failed the result text is empty.
C27_FailedRunShowsNoText ==
    [][\A i \in 1..Len(runs') :
         /\ (Started(runs'[i]) /\ (i > Len(runs) \/ ~Started(runs[i]))) =>
               extractedText' = <<>>
         /\ (i <= Len(runs) /\ runs[i].pc # "failed" /\ runs'[i].pc = "failed") =>
               extractedText' = <<>>]_vars

====
